---- MODULE Spec2Model ----
(***************************************************************************)
(* Bronze-layer ingestion (src/src/ingest_bronze.py, duplicated in         *)
(* src/src/org.py): for every entry of DATASETS, download the remote file, *)
(* read it with DuckDB, overwrite the Delta table, then verify it on a     *)
(* best-effort basis.  The model follows the script step by step: every    *)
(* external call is a step that either succeeds or raises, and an          *)
(* exception unwinds through the except/finally blocks of                   *)
(* load_data_to_delta into the except clause of main().                    *)
(***************************************************************************)
EXTENDS Integers, Sequences, FiniteSets, TLC

\* Number of entries of DATASETS, in dict (insertion) order.
NumDatasets == 4
\* Executions of the script that the longest explored scenario chains.
MaxRuns == 2
\* Environment events (failures of a step, publications of the remote files)
\* over a scenario of more than one run; a scenario of a single run explores
\* every combination of them.
MaxEvents == 2
\* Successive publications of the remote files (publication e of a dataset
\* has e data rows).
MaxEpoch == 2

Datasets == 1..NumDatasets

DATASETS ==
    << [name |-> "train_disruptions", file_name |-> "disruptions-2024.csv",
        delta_table_name |-> "disruptions_bronze"],
       [name |-> "railway_stations", file_name |-> "stations-2023-09.csv",
        delta_table_name |-> "stations_bronze"],
       [name |-> "train_archive", file_name |-> "services-2024.csv.gz",
        delta_table_name |-> "train_archive_bronze"],
       [name |-> "station_distances", file_name |-> "tariff-distances-2022-01.csv",
        delta_table_name |-> "distances_bronze"] >>

\* os.path.join(BRONZE_LAYER_PATH, ...): the common prefix is left out.
LocalFilePath(d) == DATASETS[d].file_name
DeltaTablePath(d) == DATASETS[d].delta_table_name

FilePaths == {LocalFilePath(d) : d \in Datasets}
TablePaths == {DeltaTablePath(d) : d \in Datasets}

\* A row is <<dataset, k>>; k = 0 is the header line.
SourceRows(d, e) == [k \in 1..e |-> <<d, k>>]
\* The body served for dataset d at publication e: header, then the rows.
RemoteBody(d, e) == << <<d, 0>> >> \o SourceRows(d, e)

NoFile == [exists |-> FALSE, lines |-> << >>, malformed |-> FALSE,
           complete |-> FALSE, run |-> 0]
NoTable == [exists |-> FALSE, rows |-> << >>]

VARIABLES
    pc,            \* position of the script
    run,           \* number of the current execution of the script
    runsPlanned,   \* executions of this scenario
    i,             \* index in DATASETS of the dataset main() is at (0: before main)
    files,         \* local raw files, by path
    tables,        \* Delta tables, by path
    epoch,         \* current publication of the remote files
    extInstalled,  \* the DuckDB 'delta' extension is in the extension cache
    con,           \* the connection of the current call: "none", "open", "closed"
    sessions,      \* DuckDB sessions currently open
    rel,           \* the TEMP TABLE of the session
    arrow,         \* arrow_table
    status,        \* per dataset: pending, fetched, loaded, verified, failed
    result,        \* per dataset, as main() saw the call: none, ok, failed
    calls,         \* per dataset: calls of load_data_to_delta in this execution
    fetch,         \* per dataset: how download_file ended in this execution
    errAt,         \* the exception main() caught from the latest call, if any
    events,        \* environment events so far
    lastOk,        \* per dataset: rows read by the latest call that returned
    lastWrite,     \* per dataset: rows handed to the latest completed write
    prev           \* per dataset: how the previous execution ended

vars == << pc, run, runsPlanned, i, files, tables, epoch, extInstalled, con,
           sessions, rel, arrow, status, result, calls, fetch, errAt, events,
           lastOk, lastWrite, prev >>

NoRows == [has |-> FALSE, rows |-> << >>]
NoError == [d |-> 0, step |-> "none"]

Init ==
    /\ pc = "import"
    /\ run = 1
    /\ runsPlanned \in {1, MaxRuns}
    /\ i = 0
    /\ files = [p \in FilePaths |-> NoFile]
    /\ tables = [p \in TablePaths |-> NoTable]
    /\ epoch = 1
    /\ extInstalled = FALSE
    /\ con = "none"
    /\ sessions = 0
    /\ rel = << >>
    /\ arrow = << >>
    /\ status = [d \in Datasets |-> "pending"]
    /\ result = [d \in Datasets |-> "none"]
    /\ calls = [d \in Datasets |-> 0]
    /\ fetch = [d \in Datasets |-> "none"]
    /\ errAt = NoError
    /\ events = 0
    /\ lastOk = [d \in Datasets |-> NoRows]
    /\ lastWrite = [d \in Datasets |-> NoRows]
    /\ prev = [d \in Datasets |-> [ok |-> FALSE, src |-> NoFile, tbl |-> NoTable]]

EventAllowed == runsPlanned = 1 \/ events < MaxEvents

\* read_csv_auto: the header line names the columns, every other line is a
\* row; a missing, empty or undecodable file raises.
ReadCsvAutoLenient(file) ==
    [ok |-> file.exists /\ Len(file.lines) >= 1,
     rows |-> IF Len(file.lines) >= 1 THEN Tail(file.lines) ELSE << >>]

ReadCsvAuto(file) ==
    [ok |-> file.exists /\ ~file.malformed /\ Len(file.lines) >= 1,
     rows |-> IF Len(file.lines) >= 1 THEN Tail(file.lines) ELSE << >>]

\* open(file_path, 'wb') truncates; the first n chunks of the body are then
\* written (one line per chunk).
StreamToFileKeepExisting(old, body, n, bad) ==
    IF old.exists THEN old
    ELSE [exists |-> TRUE, lines |-> SubSeq(body, 1, n), malformed |-> bad,
          complete |-> (n = Len(body)), run |-> run]

StreamToFile(old, body, n, bad) ==
    [exists |-> TRUE, lines |-> SubSeq(body, 1, n), malformed |-> bad,
     complete |-> (n = Len(body)), run |-> run]

\* write_deltalake(path, arrow_table, mode="overwrite")
WriteDeltalakeAppend(old, data) == [exists |-> TRUE, rows |-> old.rows \o data]

WriteDeltalakeIgnore(old, data) ==
    IF old.exists THEN old ELSE [exists |-> TRUE, rows |-> data]

WriteDeltalake(old, data) == [exists |-> TRUE, rows |-> data]

\* for name, info in DATASETS.items(): the entry after entry k
NextIndexRetry(k) == IF result'[k] = "failed" /\ calls[k] < 2 THEN k ELSE k + 1

NextIndex(k) == k + 1

\* The loop of main() moves on; after the last entry it prints the
\* completion message and the process exits 0.
MainLoopNext ==
    /\ i' = NextIndex(i)
    /\ pc' = IF NextIndex(i) > NumDatasets THEN "finished" ELSE "download"

\* except Exception in main(): print "Failed to process", continue.
MainExceptBreak(step) ==
    /\ status' = [status EXCEPT ![i] = "failed"]
    /\ result' = [result EXCEPT ![i] = "failed"]
    /\ errAt' = [d |-> i, step |-> step]
    /\ i' = i
    /\ pc' = "finished"

MainExceptReraise(step) ==
    /\ status' = [status EXCEPT ![i] = "failed"]
    /\ result' = [result EXCEPT ![i] = "failed"]
    /\ errAt' = [d |-> i, step |-> step]
    /\ i' = i
    /\ pc' = "crashed"

MainExcept(step) ==
    /\ status' = [status EXCEPT ![i] = "failed"]
    /\ result' = [result EXCEPT ![i] = "failed"]
    /\ errAt' = [d |-> i, step |-> step]
    /\ MainLoopNext

\* finally: con.close()
FinallyNoClose ==
    /\ con' = con
    /\ sessions' = sessions

Finally ==
    /\ con' = "closed"
    /\ sessions' = sessions - 1

\* download_file: except RequestException: print, raise (an OSError of
\* open or write is not caught there and propagates the same way); the call
\* of download_file is outside the try of load_data_to_delta.
DownloadSwallow(step) ==
    /\ pc' = "connect"
    /\ UNCHANGED << status, result, errAt, i, con, sessions, rel, arrow >>

DownloadRaise(step) ==
    /\ MainExcept(step)
    /\ UNCHANGED << con, sessions, rel, arrow >>

\* except Exception as e: print, raise; finally: close.
LoaderRaise(step) ==
    /\ Finally
    /\ rel' = << >>
    /\ arrow' = << >>
    /\ MainExcept(step)

\* load_data_to_delta falls off its end: finally closes, main() goes on.
Return ==
    /\ Finally
    /\ rel' = << >>
    /\ arrow' = << >>
    /\ result' = [result EXCEPT ![i] = "ok"]
    /\ lastOk' = [lastOk EXCEPT ![i] = [has |-> TRUE, rows |-> arrow]]
    /\ MainLoopNext
    /\ UNCHANGED errAt

Fault == EventAllowed /\ events' = events + 1
NoFault == events' = events

---------------------------------------------------------------------------
\* Module level: os.makedirs(BRONZE_LAYER_PATH, exist_ok=True), then main().
ImportOk ==
    /\ pc = "import"
    /\ pc' = "download"
    /\ i' = 1
    /\ NoFault
    /\ UNCHANGED << run, runsPlanned, files, tables, epoch, extInstalled, con,
                    sessions, rel, arrow, status, result, calls, fetch, errAt,
                    lastOk, lastWrite, prev >>

\* os.makedirs raises (permissions, a file in the way): traceback, exit 1.
ImportFail ==
    /\ pc = "import"
    /\ Fault
    /\ pc' = "crashed"
    /\ UNCHANGED << run, runsPlanned, i, files, tables, epoch, extInstalled,
                    con, sessions, rel, arrow, status, result, calls, fetch, errAt,
                    lastOk, lastWrite, prev >>

\* The publisher replaces the remote files (seen by the next download).
Publish ==
    /\ pc = "import"
    /\ epoch < MaxEpoch
    /\ EventAllowed
    /\ events' = events + 1
    /\ epoch' = epoch + 1
    /\ UNCHANGED << pc, run, runsPlanned, i, files, tables, extInstalled, con,
                    sessions, rel, arrow, status, result, calls, fetch, errAt, lastOk,
                    lastWrite, prev >>

\* main() calls load_data_to_delta(name, info), which calls download_file.
Called(outcome) ==
    /\ calls' = [calls EXCEPT ![i] = @ + 1]
    /\ fetch' = [fetch EXCEPT ![i] = outcome]

DownloadOk ==
    /\ pc = "download"
    /\ Called("ok")
    /\ NoFault
    /\ files' = [files EXCEPT ![LocalFilePath(i)] =
                    StreamToFile(@, RemoteBody(i, epoch),
                                 Len(RemoteBody(i, epoch)), FALSE)]
    /\ status' = [status EXCEPT ![i] = "fetched"]
    /\ errAt' = NoError
    /\ pc' = "connect"
    /\ UNCHANGED << run, runsPlanned, i, tables, epoch, extInstalled, con,
                    sessions, rel, arrow, result, lastOk, lastWrite, prev >>

\* 200 OK with a body that is no CSV (a truncated gzip stream, an error page).
DownloadCorrupt ==
    /\ pc = "download"
    /\ Called("ok")
    /\ Fault
    /\ files' = [files EXCEPT ![LocalFilePath(i)] =
                    StreamToFile(@, RemoteBody(i, epoch),
                                 Len(RemoteBody(i, epoch)), TRUE)]
    /\ status' = [status EXCEPT ![i] = "fetched"]
    /\ errAt' = NoError
    /\ pc' = "connect"
    /\ UNCHANGED << run, runsPlanned, i, tables, epoch, extInstalled, con,
                    sessions, rel, arrow, result, lastOk, lastWrite, prev >>

\* requests.get or raise_for_status raises: the file is not opened.
DownloadHttpError ==
    /\ pc = "download"
    /\ Called("http")
    /\ Fault
    /\ DownloadRaise("http")
    /\ UNCHANGED << run, runsPlanned, files, tables, epoch, extInstalled,
                    lastOk, lastWrite, prev >>

\* open(file_path, 'wb') raises: the file is left as it was.
DownloadOpenError ==
    /\ pc = "download"
    /\ Called("open")
    /\ Fault
    /\ DownloadRaise("open")
    /\ UNCHANGED << run, runsPlanned, files, tables, epoch, extInstalled,
                    lastOk, lastWrite, prev >>

\* iter_content or f.write raises after n chunks: a partial file stays.
DownloadStreamError ==
    /\ pc = "download"
    /\ Called("stream")
    /\ Fault
    /\ \E n \in 0..(Len(RemoteBody(i, epoch)) - 1) :
          files' = [files EXCEPT ![LocalFilePath(i)] =
                       StreamToFile(@, RemoteBody(i, epoch), n, FALSE)]
    /\ DownloadRaise("stream")
    /\ UNCHANGED << run, runsPlanned, tables, epoch, extInstalled, lastOk,
                    lastWrite, prev >>

\* con = duckdb.connect(), before the try.
ConnectOk ==
    /\ pc = "connect"
    /\ NoFault
    /\ con' = "open"
    /\ sessions' = sessions + 1
    /\ pc' = "install_ext"
    /\ UNCHANGED << run, runsPlanned, i, files, tables, epoch, extInstalled,
                    rel, arrow, status, result, calls, fetch, errAt, lastOk,
                    lastWrite, prev >>

ConnectFail ==
    /\ pc = "connect"
    /\ Fault
    /\ MainExcept("connect")
    /\ UNCHANGED << run, runsPlanned, files, tables, epoch, extInstalled, con,
                    sessions, rel, arrow, calls, fetch, lastOk, lastWrite, prev >>

\* con.execute("INSTALL 'delta'"): a no-op when it is installed already.
InstallOk ==
    /\ pc = "install_ext"
    /\ NoFault
    /\ extInstalled' = TRUE
    /\ pc' = "load_ext"
    /\ UNCHANGED << run, runsPlanned, i, files, tables, epoch, con, sessions,
                    rel, arrow, status, result, calls, fetch, errAt, lastOk,
                    lastWrite, prev >>

\* INSTALL raises (the extension cannot be fetched): except Exception: pass.
InstallFail ==
    /\ pc = "install_ext"
    /\ ~extInstalled
    /\ Fault
    /\ pc' = "load_ext"
    /\ UNCHANGED << run, runsPlanned, i, files, tables, epoch, extInstalled,
                    con, sessions, rel, arrow, status, result, calls, fetch, errAt,
                    lastOk, lastWrite, prev >>

\* con.execute("LOAD 'delta'")
LoadExtOk ==
    /\ pc = "load_ext"
    /\ extInstalled
    /\ NoFault
    /\ pc' = "read_csv"
    /\ UNCHANGED << run, runsPlanned, i, files, tables, epoch, extInstalled,
                    con, sessions, rel, arrow, status, result, calls, fetch, errAt,
                    lastOk, lastWrite, prev >>

LoadExtFail ==
    /\ pc = "load_ext"
    /\ ~extInstalled
    /\ NoFault
    /\ LoaderRaise("load_extension")
    /\ UNCHANGED << run, runsPlanned, files, tables, epoch, extInstalled,
                    calls, fetch, lastOk, lastWrite, prev >>

\* CREATE OR REPLACE TEMP TABLE ... AS SELECT * FROM read_csv_auto(path)
ReadCsvOk ==
    /\ pc = "read_csv"
    /\ ReadCsvAuto(files[LocalFilePath(i)]).ok
    /\ NoFault
    /\ rel' = ReadCsvAuto(files[LocalFilePath(i)]).rows
    /\ pc' = "arrow"
    /\ UNCHANGED << run, runsPlanned, i, files, tables, epoch, extInstalled,
                    con, sessions, arrow, status, result, calls, fetch, errAt,
                    lastOk, lastWrite, prev >>

ReadCsvFail ==
    /\ pc = "read_csv"
    /\ ~ReadCsvAuto(files[LocalFilePath(i)]).ok
    /\ NoFault
    /\ LoaderRaise("read_csv")
    /\ UNCHANGED << run, runsPlanned, files, tables, epoch, extInstalled,
                    calls, fetch, lastOk, lastWrite, prev >>

\* arrow_table = con.execute("SELECT * FROM temp").arrow()
ArrowOk ==
    /\ pc = "arrow"
    /\ NoFault
    /\ arrow' = rel
    /\ pc' = "write"
    /\ UNCHANGED << run, runsPlanned, i, files, tables, epoch, extInstalled,
                    con, sessions, rel, status, result, calls, fetch, errAt, lastOk,
                    lastWrite, prev >>

ArrowFail ==
    /\ pc = "arrow"
    /\ Fault
    /\ LoaderRaise("arrow")
    /\ UNCHANGED << run, runsPlanned, files, tables, epoch, extInstalled,
                    calls, fetch, lastOk, lastWrite, prev >>

\* write_deltalake commits the new version of the table.
WriteOk ==
    /\ pc = "write"
    /\ NoFault
    /\ tables' = [tables EXCEPT ![DeltaTablePath(i)] = WriteDeltalake(@, arrow)]
    /\ status' = [status EXCEPT ![i] = "loaded"]
    /\ lastWrite' = [lastWrite EXCEPT ![i] = [has |-> TRUE, rows |-> arrow]]
    /\ pc' = "listdir"
    /\ UNCHANGED << run, runsPlanned, i, files, epoch, extInstalled, con,
                    sessions, rel, arrow, result, calls, fetch, errAt, lastOk, prev >>

\* write_deltalake raises: no commit, the table keeps its latest version.
WriteFail ==
    /\ pc = "write"
    /\ Fault
    /\ LoaderRaise("write")
    /\ UNCHANGED << run, runsPlanned, files, tables, epoch, extInstalled,
                    calls, fetch, lastOk, lastWrite, prev >>

\* print("Files written to:", os.listdir(delta_table_path)), in the outer try
ListdirOk ==
    /\ pc = "listdir"
    /\ NoFault
    /\ pc' = "verify"
    /\ UNCHANGED << run, runsPlanned, i, files, tables, epoch, extInstalled,
                    con, sessions, rel, arrow, status, result, calls, fetch, errAt,
                    lastOk, lastWrite, prev >>

ListdirFail ==
    /\ pc = "listdir"
    /\ Fault
    /\ LoaderRaise("listdir")
    /\ UNCHANGED << run, runsPlanned, files, tables, epoch, extInstalled,
                    calls, fetch, lastOk, lastWrite, prev >>

\* The inner try: DeltaTable(path), listdir(abs_path), delta_scan count.
VerifyOk ==
    /\ pc = "verify"
    /\ NoFault
    /\ status' = [status EXCEPT ![i] = "verified"]
    /\ Return
    /\ UNCHANGED << run, runsPlanned, files, tables, epoch, extInstalled,
                    calls, fetch, lastWrite, prev >>

\* except Exception as e_check: print a warning.
VerifyFail ==
    /\ pc = "verify"
    /\ Fault
    /\ Return
    /\ UNCHANGED << run, runsPlanned, files, tables, epoch, extInstalled,
                    status, calls, fetch, lastWrite, prev >>

\* The script is started again; files, tables and the extension cache stay.
NewRun ==
    /\ pc \in {"finished", "crashed"}
    /\ run < runsPlanned
    /\ run' = run + 1
    /\ pc' = "import"
    /\ i' = 0
    /\ con' = "none"
    /\ sessions' = 0
    /\ rel' = << >>
    /\ arrow' = << >>
    /\ status' = [d \in Datasets |-> "pending"]
    /\ result' = [d \in Datasets |-> "none"]
    /\ calls' = [d \in Datasets |-> 0]
    /\ fetch' = [d \in Datasets |-> "none"]
    /\ errAt' = NoError
    /\ prev' = [d \in Datasets |->
                  [ok |-> result[d] = "ok",
                   src |-> files[LocalFilePath(d)],
                   tbl |-> tables[DeltaTablePath(d)]]]
    /\ UNCHANGED << runsPlanned, files, tables, epoch, extInstalled, events,
                    lastOk, lastWrite >>

Next ==
    \/ ImportOk \/ ImportFail \/ Publish
    \/ DownloadOk \/ DownloadCorrupt \/ DownloadHttpError
    \/ DownloadOpenError \/ DownloadStreamError
    \/ ConnectOk \/ ConnectFail
    \/ InstallOk \/ InstallFail
    \/ LoadExtOk \/ LoadExtFail
    \/ ReadCsvOk \/ ReadCsvFail
    \/ ArrowOk \/ ArrowFail
    \/ WriteOk \/ WriteFail
    \/ ListdirOk \/ ListdirFail
    \/ VerifyOk \/ VerifyFail
    \/ NewRun

Spec == Init /\ [][Next]_vars

---------------------------------------------------------------------------
\* Properties

RawFile(d) == files[LocalFilePath(d)]
BronzeTable(d) == tables[DeltaTablePath(d)]
\* The raw file of d was written completely by this execution.
Fresh(d) == RawFile(d).exists /\ RawFile(d).complete /\ RawFile(d).run = run
FetchFailed(d) == fetch[d] \in {"http", "open", "stream"}
InLoader == pc \in {"connect", "install_ext", "load_ext", "read_csv", "arrow",
                    "write", "listdir", "verify"}
TableOf(rows) == [exists |-> TRUE, rows |-> rows]

\* C1: when the fetch of a dataset f fails in a run, every other dataset is
\* still passed to load_data_to_delta (exactly once) in that run, and each of
\* them whose own call returned normally ends the run with its table holding
\* exactly the rows of its own source at the publication it fetched.
C1_FailureIsolation ==
    pc = "finished" =>
        \A f \in Datasets : FetchFailed(f) =>
            \A d \in Datasets \ {f} :
                /\ calls[d] = 1
                /\ result[d] = "ok" =>
                      /\ Fresh(d)
                      /\ RawFile(d).lines = RemoteBody(d, epoch)
                      /\ BronzeTable(d) = TableOf(SourceRows(d, epoch))

\* A run in which the second dataset's fetch failed and the three others,
\* before and after it, were loaded.
C1_Witness ==
    /\ pc = "finished"
    /\ FetchFailed(2)
    /\ \A d \in Datasets \ {2} :
          result[d] = "ok" /\ BronzeTable(d) = TableOf(SourceRows(d, epoch))

\* C2: when the file just downloaded is malformed (read_csv_auto raises on
\* it), the call never returns normally and the table of the dataset stays
\* what it was when the run started: write_deltalake is not reached.
C2_MalformedLeavesTable ==
    \A d \in Datasets :
        (Fresh(d) /\ RawFile(d).malformed) =>
            /\ status[d] \notin {"loaded", "verified"}
            /\ result[d] # "ok"
            /\ BronzeTable(d) = prev[d].tbl
            /\ (result[d] # "none" => result[d] = "failed")

\* read_csv_auto raised on a malformed file while a table written by the
\* previous run was in place, and the table is still that one.
C2_Witness ==
    \E d \in Datasets :
        /\ errAt = [d |-> d, step |-> "read_csv"]
        /\ RawFile(d).malformed
        /\ prev[d].tbl.exists
        /\ BronzeTable(d) = prev[d].tbl

\* Steps that only serve the verification: loading the delta extension
\* (needed by delta_scan alone) and the verification block itself.
VerifierCapability == {"load_extension", "verify"}

\* C3: a failure of the verification capability (the delta extension that
\* only the verifier's delta_scan needs, or a step of the verification
\* block) never makes main() report a dataset as failed.
C3_VerifierNeverFatal ==
    \A d \in Datasets :
        (result[d] = "failed" /\ errAt.d = d) => errAt.step \notin VerifierCapability

\* C4, as stated: at the end of a run, the table of a dataset that some call
\* loaded successfully holds exactly the rows read by the most recent
\* successful call.
C4_Original ==
    pc = "finished" =>
        \A d \in Datasets : lastOk[d].has => BronzeTable(d) = TableOf(lastOk[d].rows)

\* C4, amended: the table of a dataset always holds exactly the rows read by
\* the most recent call whose write_deltalake completed (nothing appended or
\* merged), and a call that returns normally is that call.
C4_Amended ==
    \A d \in Datasets :
        /\ lastWrite[d].has <=> BronzeTable(d).exists
        /\ lastWrite[d].has => BronzeTable(d) = TableOf(lastWrite[d].rows)
        /\ result[d] = "ok" =>
              /\ lastOk[d] = lastWrite[d]
              /\ BronzeTable(d).rows = Tail(RawFile(d).lines)
              /\ Len(BronzeTable(d).rows) = Len(RawFile(d).lines) - 1

\* A second run whose call wrote the table and then raised at the directory
\* listing: the table holds the rows of the failed call, not those of the
\* latest successful one.
C4_Witness ==
    /\ pc = "finished"
    /\ \E d \in Datasets :
          /\ result[d] = "failed"
          /\ lastOk[d].has
          /\ lastWrite[d].has
          /\ lastOk[d] # lastWrite[d]
          /\ BronzeTable(d) = TableOf(lastWrite[d].rows)

\* C5: when two successive runs both load a dataset and the second fetched
\* the same source as the first, the table after the second run equals the
\* table after the first.
C5_IdempotentRerun ==
    (pc = "finished" /\ run >= 2) =>
        \A d \in Datasets :
            ( /\ prev[d].ok
              /\ result[d] = "ok"
              /\ prev[d].src.lines = RawFile(d).lines
              /\ prev[d].src.malformed = RawFile(d).malformed )
            => BronzeTable(d) = prev[d].tbl

C5_Witness ==
    /\ pc = "finished"
    /\ run = 2
    /\ \E d \in Datasets :
          /\ prev[d].ok
          /\ result[d] = "ok"
          /\ prev[d].src.lines = RawFile(d).lines
          /\ BronzeTable(d) = prev[d].tbl
          /\ BronzeTable(d).exists

\* C6, as stated: the process never ends otherwise than after the completion
\* message, with exit status 0.
C6_Original == pc # "crashed"

\* C6, amended: once main() is entered, whatever the outcomes of the
\* datasets, the process does not end with an exception and always has a
\* next step until the completion message; only the module-level
\* os.makedirs, before main(), can end it with an exception.
C6_Amended ==
    /\ pc = "crashed" => (i = 0 /\ \A d \in Datasets : calls[d] = 0)
    /\ (pc = "download" \/ InLoader) => ENABLED Next
    /\ pc = "finished" => \A d \in Datasets : result[d] \in {"ok", "failed"}

\* The completion message after all four datasets failed.
C6_Witness ==
    /\ pc = "finished"
    /\ \A d \in Datasets : result[d] = "failed"
    /\ \E d \in Datasets : FetchFailed(d)
    /\ \E d \in Datasets : fetch[d] = "ok"

\* C7: at most one session is open, only inside a call of
\* load_data_to_delta, and none once the call has returned or raised.
C7_SessionReleased ==
    /\ sessions \in {0, 1}
    /\ sessions = 1 <=> con = "open"
    /\ con = "open" => pc \in {"install_ext", "load_ext", "read_csv", "arrow",
                               "write", "listdir", "verify"}
    /\ pc \in {"import", "download", "connect", "finished", "crashed"} => sessions = 0

\* A call that raised with its session open (at the directory listing), and
\* one that returned, both with the session closed afterwards.
C7_Witness ==
    /\ pc = "finished"
    /\ con = "closed"
    /\ sessions = 0
    /\ errAt.step \in {"load_extension", "read_csv", "arrow", "write", "listdir"}
    /\ \E d \in Datasets : result[d] = "ok"

\* C8: datasets are taken one at a time in registry order, each exactly once;
\* a status only changes for the dataset main() is at, along
\* pending -> fetched -> loaded -> verified, or to failed; a table is only
\* written by the call of a dataset whose fetch completed.
Terminal == {"loaded", "verified", "failed"}
StatusSteps == { <<"pending", "fetched">>, <<"fetched", "loaded">>,
                 <<"loaded", "verified">>, <<"pending", "failed">>,
                 <<"fetched", "failed">>, <<"loaded", "failed">> }

C8_Order ==
    \A d \in Datasets :
        /\ calls[d] <= 1
        /\ (d < i) => (calls[d] = 1 /\ status[d] \in Terminal /\ result[d] # "none")
        /\ (d > i) => (calls[d] = 0 /\ status[d] = "pending" /\ result[d] = "none")
        /\ (d = i /\ pc = "download") => (calls[d] = 0 /\ status[d] = "pending")
        /\ (d = i /\ InLoader) => (calls[d] = 1 /\ result[d] = "none")
        /\ status[d] \in {"fetched", "loaded", "verified"} => fetch[d] = "ok"
        /\ status[d] = "verified" => BronzeTable(d).exists

C8_Step ==
    (run' = run) =>
        /\ \A d \in Datasets :
              status'[d] # status[d] =>
                  (d = i /\ <<status[d], status'[d]>> \in StatusSteps)
        /\ tables' # tables =>
              (status[i] = "fetched" /\ status'[i] = "loaded")
        /\ i' \in {i, i + 1}

C8_Orchestration == []C8_Order /\ [][C8_Step]_vars

\* A finished run with a verified dataset and a failed one.
C8_Witness ==
    /\ pc = "finished"
    /\ \E d \in Datasets : status[d] = "verified"
    /\ \E d \in Datasets : status[d] = "failed"
    /\ \E d \in Datasets : status[d] = "loaded"

\* C9, as stated: in every run of main() the fetcher is called for every
\* dataset and its raw file is overwritten by that run.
C9_Original ==
    pc = "finished" =>
        \A d \in Datasets :
            calls[d] = 1 /\ fetch[d] # "none" /\ RawFile(d).exists /\ RawFile(d).run = run

\* C9, amended: in every run of main() the fetcher is called for every
\* dataset, whether or not its raw file exists; the file is overwritten when
\* the request succeeds and the file opens, and left as it was otherwise; it
\* is never deleted.
C9_Fetched ==
    pc = "finished" =>
        \A d \in Datasets :
            /\ calls[d] = 1
            /\ fetch[d] # "none"
            /\ fetch[d] \in {"ok", "stream"} =>
                  (RawFile(d).exists /\ RawFile(d).run = run)
            /\ fetch[d] = "ok" => RawFile(d).lines = RemoteBody(d, epoch)
            /\ fetch[d] \in {"http", "open"} => RawFile(d) = prev[d].src

C9_Kept == \A p \in FilePaths : files[p].exists => files'[p].exists

C9_Amended == []C9_Fetched /\ [][C9_Kept]_vars

\* A second run in which one dataset's request failed, leaving the file of
\* the first run, and another dataset's file of the first run was
\* overwritten.
C9_Witness ==
    /\ pc = "finished"
    /\ run = 2
    /\ \E d \in Datasets :
          fetch[d] = "http" /\ RawFile(d).exists /\ RawFile(d).run = 1
    /\ \E d \in Datasets :
          fetch[d] = "ok" /\ prev[d].src.exists /\ RawFile(d).run = 2

\* C10: past download_file, a call only ever works on a raw file that this
\* very call downloaded completely; when download_file fails, the call ends
\* there (no session, no read, no write) and the table keeps the state it
\* had when the run started.
C10_OnlyFreshFilesLoaded ==
    /\ InLoader => (fetch[i] = "ok" /\ Fresh(i))
    /\ \A d \in Datasets :
          FetchFailed(d) =>
              /\ result[d] = "failed"
              /\ status[d] = "failed"
              /\ BronzeTable(d) = prev[d].tbl
              /\ ~(InLoader /\ i = d)
    /\ \A d \in Datasets :
          BronzeTable(d).exists =>
              \E e \in 1..MaxEpoch : BronzeTable(d).rows = Tail(RemoteBody(d, e))

\* A second run whose download broke mid-stream: the partial file is on disk
\* and the table of the first run is untouched.
C10_Witness ==
    /\ run = 2
    /\ \E d \in Datasets :
          /\ fetch[d] = "stream"
          /\ ~RawFile(d).complete
          /\ RawFile(d).run = 2
          /\ prev[d].tbl.exists
          /\ BronzeTable(d) = prev[d].tbl

====
